---- MODULE Spec2Model ----
(***************************************************************************)
(* A model of plot.py, the .agr (Grace) file plotter/exporter for VMD.     *)
(*                                                                         *)
(* The input file is a sequence of bytes.  The text layer (universal       *)
(* newlines, UTF-8 decoding, seek by byte offset), the tokenizers          *)
(* (shlex.split, str.split, str.strip, str.lstrip) and float() are         *)
(* modelled character by character; parse_plot_configs and                 *)
(* parse_coordinates advance one line of the file per step; main() runs    *)
(* its statements in order.                                                *)
(***************************************************************************)
EXTENDS Integers, Sequences, FiniteSets, TLC

VARIABLES
    input,      \* the document the input file was written from (never read by the program)
    file,       \* the bytes of the input file
    handle,     \* state of args.input_file: "open" or "closed"
    args,       \* the parsed command line (argparse namespace)
    matplotlib, \* whether `import matplotlib.pyplot` succeeds in this environment
    pc,         \* the statement the run is at
    err,        \* the exception that ended the run, "none" while running
    cursor,     \* byte offset of the text stream's read position
    position,   \* parse_plot_configs' local `position`
    title,      \* self.title
    layers,     \* self.layers: sequence of [name, data], data a sequence of <<x, y>> (OrderedDict)
    k,          \* parse_coordinates: index in chosen_layers of the layer being filled
    stdout,     \* what was printed, in order
    figure,     \* the pyplot figure built by plot(), NoFigure before
    csv_file,   \* the table written by to_csv, NoFile before
    image_file, \* the figure saved by savefig, NoFile before
    shown       \* whether plot.show() was called

vars == <<input, file, handle, args, matplotlib, pc, err, cursor, position,
          title, layers, k, stdout, figure, csv_file, image_file, shown>>

-----------------------------------------------------------------------------
(* Bounds of the model. *)

MaxHeaderLines == 3
MaxDataLines == 4

-----------------------------------------------------------------------------
(* Characters and bytes.  A character is a one-element string; the bytes   *)
(* 0x0A, 0x0D, 0x09 are written "LF", "CR", "TAB"; the two bytes of the    *)
(* UTF-8 encoding of U+00E9 are "xC3" "xA9" and decode to "U+00E9".        *)

Whitespace == {" ", "LF", "CR", "TAB"}

DigitChars == <<"0", "1", "2", "3", "4", "5", "6", "7", "8", "9">>

IsDigit(c) == \E d \in 1..10 : DigitChars[d] = c

DigitVal(c) == (CHOOSE d \in 1..10 : DigitChars[d] = c) - 1

\* str.startswith
startswith(s, prefix) ==
    /\ Len(s) >= Len(prefix)
    /\ SubSeq(s, 1, Len(prefix)) = prefix

\* str.lstrip(chars)
RECURSIVE lstrip(_, _)
lstrip(s, chars) ==
    IF s # <<>> /\ Head(s) \in chars THEN lstrip(Tail(s), chars) ELSE s

\* str.rstrip(chars)
RECURSIVE rstrip(_, _)
rstrip(s, chars) ==
    IF s # <<>> /\ s[Len(s)] \in chars
    THEN rstrip(SubSeq(s, 1, Len(s) - 1), chars)
    ELSE s

\* str.strip()
strip(s) == rstrip(lstrip(s, Whitespace), Whitespace)

\* str.split(): maximal runs of non-whitespace characters
RECURSIVE str_split_scan(_, _, _, _)
str_split_scan(s, i, cur, out) ==
    IF i > Len(s)
    THEN IF cur = <<>> THEN out ELSE Append(out, cur)
    ELSE IF s[i] \in Whitespace
         THEN str_split_scan(s, i + 1, <<>>, IF cur = <<>> THEN out ELSE Append(out, cur))
         ELSE str_split_scan(s, i + 1, Append(cur, s[i]), out)

str_split(s) == str_split_scan(s, 1, <<>>, <<>>)

\* shlex.split(): whitespace-separated words; a double-quoted stretch is part
\* of the word it occurs in, without its quotes; an unclosed quote raises
\* ValueError ("No closing quotation").  inWord tells a started word (which
\* may be empty, as in "") from no word.
RECURSIVE split_scan(_, _, _, _, _, _)
split_scan(s, i, cur, inWord, inQuote, out) ==
    IF i > Len(s)
    THEN IF inQuote THEN [ok |-> FALSE, tokens |-> out]
         ELSE [ok |-> TRUE, tokens |-> IF inWord THEN Append(out, cur) ELSE out]
    ELSE IF inQuote
         THEN IF s[i] = "\""
              THEN split_scan(s, i + 1, cur, TRUE, FALSE, out)
              ELSE split_scan(s, i + 1, Append(cur, s[i]), TRUE, TRUE, out)
         ELSE IF s[i] \in Whitespace
              THEN split_scan(s, i + 1, <<>>, FALSE, FALSE,
                              IF inWord THEN Append(out, cur) ELSE out)
              ELSE IF s[i] = "\""
                   THEN split_scan(s, i + 1, cur, TRUE, TRUE, out)
                   ELSE split_scan(s, i + 1, Append(cur, s[i]), TRUE, FALSE, out)

split(s) == split_scan(s, 1, <<>>, FALSE, FALSE, <<>>)

\* float(c) on the literals the model's files hold: digits, optionally
\* followed by ".0"; anything else raises ValueError.
RECURSIVE digits_value(_, _)
digits_value(s, acc) ==
    IF s = <<>> THEN acc ELSE digits_value(Tail(s), 10 * acc + DigitVal(Head(s)))

is_digits(s) == s # <<>> /\ \A i \in 1..Len(s) : IsDigit(s[i])

float(c) ==
    IF is_digits(c)
    THEN [ok |-> TRUE, value |-> digits_value(c, 0)]
    ELSE IF /\ Len(c) >= 3
            /\ SubSeq(c, Len(c) - 1, Len(c)) = <<".", "0">>
            /\ is_digits(SubSeq(c, 1, Len(c) - 2))
         THEN [ok |-> TRUE, value |-> digits_value(SubSeq(c, 1, Len(c) - 2), 0)]
         ELSE [ok |-> FALSE, value |-> 0]

\* str(x) of a float with an integral value, as csv.writer writes it: "2.0"
RECURSIVE nat_digits(_)
nat_digits(n) ==
    IF n < 10 THEN <<DigitChars[n + 1]>>
    ELSE Append(nat_digits(n \div 10), DigitChars[(n % 10) + 1])

float_str(x) == nat_digits(x) \o <<".", "0">>

-----------------------------------------------------------------------------
(* The text stream over the file's bytes (io.TextIOWrapper, mode 'r').     *)

\* One line read at byte index i (1-based) of f: the decoded characters up to
\* and including the line end, every line end ("LF", "CR" "LF", "CR")
\* translated to "LF"; next is the byte index after it.  <<>> at end of file.
\* ok is FALSE when the bytes at i are not valid UTF-8 (UnicodeDecodeError).
RECURSIVE readline_scan(_, _, _)
readline_scan(f, i, acc) ==
    IF i > Len(f) THEN [ok |-> TRUE, line |-> acc, next |-> i]
    ELSE IF f[i] = "LF"
         THEN [ok |-> TRUE, line |-> Append(acc, "LF"), next |-> i + 1]
    ELSE IF f[i] = "CR"
         THEN [ok |-> TRUE, line |-> Append(acc, "LF"),
               next |-> IF i + 1 <= Len(f) /\ f[i + 1] = "LF" THEN i + 2 ELSE i + 1]
    ELSE IF f[i] = "xC3"
         THEN IF i + 1 <= Len(f) /\ f[i + 1] = "xA9"
              THEN readline_scan(f, i + 2, Append(acc, "U+00E9"))
              ELSE [ok |-> FALSE, line |-> acc, next |-> i]
    ELSE IF f[i] = "xA9"
         THEN [ok |-> FALSE, line |-> acc, next |-> i]
    ELSE readline_scan(f, i + 1, Append(acc, f[i]))

\* next(agr_file) with the stream at byte offset c (0-based); next is the
\* byte offset after the line.
readline(f, c) ==
    LET r == readline_scan(f, c + 1, <<>>)
    IN  [ok |-> r.ok, line |-> r.line, next |-> r.next - 1]

\* agr_file.seek(offset): a plain integer cookie is a byte offset
seek(offset) == offset

-----------------------------------------------------------------------------
(* Input documents.  A file is written from a header (directive lines) and *)
(* data lines, all ended the same way: "LF" or "CRLF".  Names and string   *)
(* arguments are sequences of characters.                                  *)

W_title == <<"t", "i", "t", "l", "e">>
W_legend == <<"l", "e", "g", "e", "n", "d">>
W_type == <<"t", "y", "p", "e">>
W_xy == <<"x", "y">>

NameA == <<"A">>
NameB == <<"B">>
NameC == <<"C">>
NameZ == <<"Z">>
TitleTU == <<"T", " ", "U">>
TitleAccent == <<"U+00E9">>
TitleX == <<"X">>

Quoted(s) == <<"\"">> \o s \o <<"\"">>

\* @title "<t>"
TitleDirective(t) ==
    [kind |-> "title", arg |-> t,
     text |-> <<"@">> \o W_title \o <<" ">> \o Quoted(t)]

\* @s<n> legend "<name>"
LegendDirective(n, name) ==
    [kind |-> "legend", arg |-> name,
     text |-> <<"@", "s", DigitChars[n + 1], " ">> \o W_legend \o <<" ">> \o Quoted(name)]

\* @type <v>
TypeDirective(v) ==
    [kind |-> "type", arg |-> v, text |-> <<"@">> \o W_type \o <<" ">> \o v]

\* any other directive, given as its text
OtherDirective(text) == [kind |-> "other", arg |-> <<>>, text |-> text]

\* @subtitle "x": the command starts with 's', the argument is not legend
SubtitleDirective ==
    OtherDirective(<<"@", "s", "u", "b", "t", "i", "t", "l", "e", " ", "\"", "x", "\"">>)

\* @version: no argument
VersionDirective == OtherDirective(<<"@", "v", "e", "r", "s", "i", "o", "n">>)

\* @sort: the command starts with 's', no argument
SortDirective == OtherDirective(<<"@", "s", "o", "r", "t">>)

\* @ legend on: the marker stands alone, the command is empty
MarkerOnlyDirective ==
    OtherDirective(<<"@", " ">> \o W_legend \o <<" ", "o", "n">>)

HeaderDirectives ==
    { TitleDirective(TitleTU), TitleDirective(TitleAccent),
      LegendDirective(0, NameA), LegendDirective(1, NameB),
      TypeDirective(W_xy), TypeDirective(<<"b", "a", "r">>),
      SubtitleDirective, VersionDirective, SortDirective, MarkerOnlyDirective }

\* a data line "<x> <y>", the block terminator "&", a line with one number
PointLine(x, y) ==
    [kind |-> "point", x |-> x, y |-> y,
     text |-> nat_digits(x) \o <<" ">> \o nat_digits(y)]

EndLine == [kind |-> "end", x |-> 0, y |-> 0, text |-> <<"&">>]

ShortLine == [kind |-> "short", x |-> 0, y |-> 0, text |-> <<"7">>]

DataLines == { PointLine(0, 1), PointLine(0, 2), PointLine(1, 3), EndLine, ShortLine }

SeqsUpTo(S, n) == UNION { [1..m -> S] : m \in 0..n }

\* UTF-8
encode_char(c) == IF c = "U+00E9" THEN <<"xC3", "xA9">> ELSE <<c>>

RECURSIVE encode(_)
encode(s) == IF s = <<>> THEN <<>> ELSE encode_char(Head(s)) \o encode(Tail(s))

eol_bytes(eol) == IF eol = "CRLF" THEN <<"CR", "LF">> ELSE <<"LF">>

RECURSIVE lines_bytes(_, _)
lines_bytes(ls, eol) ==
    IF ls = <<>> THEN <<>>
    ELSE encode(Head(ls).text) \o eol_bytes(eol) \o lines_bytes(Tail(ls), eol)

\* the bytes of the file written from a document
file_bytes(doc) == lines_bytes(doc.header, doc.eol) \o lines_bytes(doc.data, doc.eol)

-----------------------------------------------------------------------------
(* class Layer, class VmdAgrPlot                                           *)

Layer(name) == [name |-> name, data |-> <<>>]

\* x in layer.data
has_key(data, x) == \E i \in 1..Len(data) : data[i][1] = x

\* a slip of set_item: a list of pairs, every line appended
set_item_append(data, x, y) == Append(data, <<x, y>>)

\* layer.data[x] = y on an OrderedDict: a present key keeps its place and
\* takes the new value, a new key goes last
set_item(data, x, y) ==
    IF has_key(data, x)
    THEN [i \in 1..Len(data) |-> IF data[i][1] = x THEN <<x, y>> ELSE data[i]]
    ELSE Append(data, <<x, y>>)

\* a slip of chosen_indices: restrict_to is not looked at
chosen_indices_all(ls, restrict_to) == [i \in 1..Len(ls) |-> i]

\* the indices in ls of VmdAgrPlot.chosen_layers; restrict_to is a sequence
\* of names, <<>> for None (`not self.restrict_to` holds of both)
RECURSIVE chosen_from(_, _, _)
chosen_from(ls, restrict_to, i) ==
    IF i > Len(ls) THEN <<>>
    ELSE IF restrict_to = <<>> \/ (\E j \in 1..Len(restrict_to) : restrict_to[j] = ls[i].name)
         THEN <<i>> \o chosen_from(ls, restrict_to, i + 1)
         ELSE chosen_from(ls, restrict_to, i + 1)

chosen_indices(ls, restrict_to) == chosen_from(ls, restrict_to, 1)

\* self.chosen_layers
chosen_layers ==
    LET idx == chosen_indices(layers, args.restrict_to)
    IN  [j \in 1..Len(idx) |-> layers[idx[j]]]

\* a slip of append_layer: the new layer is put first
append_layer_front(ls, layer_name) == <<Layer(layer_name)>> \o ls

\* self.layers.append(Layer(layer_name))
append_layer(ls, layer_name) == Append(ls, Layer(layer_name))

\* The body of parse_plot_configs' loop for one directive line (a line that
\* starts with '@'): the title, the layers and what is printed afterwards, or
\* the exception raised.
config_result(t, ls, printed, e) == [title |-> t, layers |-> ls, printed |-> printed, err |-> e]

parse_config_line(t, ls, line) ==
    LET words == split(strip(line))
    IN  IF ~words.ok \/ words.tokens = <<>>
        THEN config_result(t, ls, <<>>, "ValueError")
        ELSE
        LET command == lstrip(Head(words.tokens), {"@"})
            values == Tail(words.tokens)
        IN  IF command = W_title
            THEN IF Len(values) < 1
                 THEN config_result(t, ls, <<>>, "IndexError")
                 ELSE config_result(values[1], ls, <<>>, "none")
            ELSE IF startswith(command, <<"s">>) /\ Len(values) < 1
            THEN config_result(t, ls, <<>>, "IndexError")
            ELSE IF startswith(command, <<"s">>) /\ values[1] = W_legend
            THEN IF Len(values) < 2
                 THEN config_result(t, ls, <<>>, "IndexError")
                 ELSE config_result(t, append_layer(ls, values[2]), <<>>, "none")
            ELSE IF command = W_type
            THEN IF Len(values) < 1
                 THEN config_result(t, ls, <<>>, "IndexError")
                 ELSE IF values[1] = W_xy
                      THEN config_result(t, ls, <<>>, "none")
                      ELSE config_result(t, ls, <<>>, "AssertionError")
            ELSE config_result(t, ls, <<[msg |-> "Unrecognized command", arg |-> command]>>, "none")

\* The body of parse_coordinates' inner loop for one line read for a layer
\* whose points are data: the points and what is printed afterwards, whether
\* the line ends the block (break), or the exception raised.
coord_result(data, printed, done, e) == [data |-> data, printed |-> printed, done |-> done, err |-> e]

parse_coordinates_line_result(data, line) ==
    LET stripped == strip(line)
    IN  IF stripped = <<"&">>
        THEN coord_result(data, <<>>, TRUE, "none")
        ELSE
        LET cs == str_split(stripped)
        IN  IF (\E i \in 1..Len(cs) : ~float(cs[i]).ok) \/ Len(cs) # 2
            THEN coord_result(data, <<>>, FALSE, "ValueError")
            ELSE
            LET x == float(cs[1]).value
                y == float(cs[2]).value
            IN  coord_result(set_item(data, x, y),
                             IF has_key(data, x)
                             THEN <<[msg |-> "Data inconsistency: occurs twice as x", arg |-> x]>>
                             ELSE <<>>,
                             FALSE, "none")

\* to_csv: the field names and the rows handed to csv.DictWriter.  A row is
\* [rowdict.get(key, '') for key in fieldnames]; a float is written as str.
column(name, coord) == name \o <<".", coord>>

csv_headers(chosen) ==
    [c \in 1..(2 * Len(chosen)) |->
        column(chosen[(c + 1) \div 2].name, IF c % 2 = 1 THEN "x" ELSE "y")]

csv_row(headers, name, point) ==
    [c \in 1..Len(headers) |->
        IF headers[c] = column(name, "x") THEN float_str(point[1])
        ELSE IF headers[c] = column(name, "y") THEN float_str(point[2])
        ELSE <<>>]

RECURSIVE csv_rows(_, _, _)
csv_rows(headers, chosen, i) ==
    IF i > Len(chosen) THEN <<>>
    ELSE [j \in 1..Len(chosen[i].data) |-> csv_row(headers, chosen[i].name, chosen[i].data[j])]
         \o csv_rows(headers, chosen, i + 1)

to_csv(chosen) ==
    LET headers == csv_headers(chosen)
    IN  [fieldnames |-> headers, rows |-> csv_rows(headers, chosen, 1)]

\* a slip of plot: the labels are not counted, a missing one falls back to
\* the layer's name
plot_lenient(chosen, t, scale, axes_labels, legend_pos, labels, have_matplotlib) ==
    IF ~have_matplotlib
    THEN [ok |-> FALSE, printed |-> <<[msg |-> "Matplotlib not found", arg |-> <<>>]>>,
          figure |-> <<>>]
    ELSE [ok |-> TRUE, printed |-> <<>>,
          figure |->
           <<[lines |-> [i \in 1..Len(chosen) |->
                           [xs |-> [j \in 1..Len(chosen[i].data) |-> scale[1] * chosen[i].data[j][1]],
                            ys |-> [j \in 1..Len(chosen[i].data) |-> scale[2] * chosen[i].data[j][2]],
                            label |-> IF i <= Len(labels) THEN labels[i] ELSE chosen[i].name]],
              title |-> t,
              xlabel |-> axes_labels[1],
              ylabel |-> axes_labels[2],
              legend |-> legend_pos]>>]

\* plot(): False with the message printed, or the pyplot figure
plot_result(ok, printed, fig) == [ok |-> ok, printed |-> printed, figure |-> fig]

plot(chosen, t, scale, axes_labels, legend_pos, labels, have_matplotlib) ==
    IF ~have_matplotlib
    THEN plot_result(FALSE, <<[msg |-> "Matplotlib not found", arg |-> <<>>]>>, <<>>)
    ELSE IF labels # <<>> /\ Len(labels) # Len(chosen)
    THEN plot_result(FALSE, <<[msg |-> "There should be exactly as many labels", arg |-> <<>>]>>, <<>>)
    ELSE plot_result(TRUE, <<>>,
           <<[lines |-> [i \in 1..Len(chosen) |->
                           [xs |-> [j \in 1..Len(chosen[i].data) |-> scale[1] * chosen[i].data[j][1]],
                            ys |-> [j \in 1..Len(chosen[i].data) |-> scale[2] * chosen[i].data[j][2]],
                            label |-> IF labels # <<>> THEN labels[i] ELSE chosen[i].name]],
              title |-> t,
              xlabel |-> axes_labels[1],
              ylabel |-> axes_labels[2],
              legend |-> legend_pos]>>)

-----------------------------------------------------------------------------
(* The runs checked: a command line, an input file and an environment.     *)

AxisX == <<"f", "r", "a", "m", "e">>
AxisY == <<"y">>

Formats == {"csv", "svg", "png", "jpg"}

\* create_argument_parser's defaults, with --do_not_plot
DefaultArgs ==
    [restrict_to |-> <<>>, do_not_plot |-> TRUE, export |-> "None", labels |-> <<>>,
     title |-> <<>>, scale |-> <<1, 1>>, legend_position |-> <<1, 1>>,
     axis_x |-> AxisX, axis_y |-> AxisY]

ThreeLegends ==
    <<LegendDirective(0, NameA), LegendDirective(1, NameB), LegendDirective(2, NameC)>>

TwoBlocks == <<PointLine(1, 3), EndLine, PointLine(0, 2), EndLine>>

ThreeBlocks ==
    <<PointLine(0, 1), PointLine(0, 2), EndLine, PointLine(1, 3), EndLine,
      PointLine(2, 2), EndLine>>

\* every header of at most MaxHeaderLines directives, both line endings
HeaderRuns ==
    { [doc |-> [header |-> h, data |-> TwoBlocks, eol |-> e],
       args |-> DefaultArgs, matplotlib |-> TRUE] :
      h \in SeqsUpTo(HeaderDirectives, MaxHeaderLines), e \in {"LF", "CRLF"} }

\* every data section of at most MaxDataLines lines under three legends,
\* with and without --restrict_to
DataRuns ==
    { [doc |-> [header |-> ThreeLegends, data |-> d, eol |-> "LF"],
       args |-> [DefaultArgs EXCEPT !.restrict_to = r], matplotlib |-> TRUE] :
      d \in SeqsUpTo(DataLines, MaxDataLines),
      r \in {<<>>, <<NameA>>, <<NameB>>, <<NameA, NameC>>, <<NameZ>>} }

\* every command line over two documents, with and without matplotlib
MainRuns ==
    { [doc |-> [header |-> h, data |-> ThreeBlocks, eol |-> "LF"],
       args |-> [restrict_to |-> r, do_not_plot |-> np, export |-> ex, labels |-> lb,
                 title |-> t, scale |-> sc, legend_position |-> <<1, 1>>,
                 axis_x |-> AxisX, axis_y |-> AxisY],
       matplotlib |-> m] :
      h \in {ThreeLegends, <<LegendDirective(0, NameA), LegendDirective(1, NameA)>>},
      r \in {<<>>, <<NameB>>, <<NameA, NameC>>},
      np \in BOOLEAN, ex \in Formats \cup {"None"},
      lb \in {<<>>, <<NameZ, NameZ>>, <<NameZ, NameZ, NameZ>>},
      t \in {<<>>, TitleX}, sc \in {<<1, 1>>, <<2, 3>>}, m \in BOOLEAN }

Runs == HeaderRuns \cup DataRuns \cup MainRuns

\* main() has parsed the command line (argparse.FileType('r') has opened the
\* input file) and VmdAgrPlot.__init__ has set title, layers and restrict_to.
Init ==
    \E run \in Runs :
        /\ input = run.doc
        /\ file = file_bytes(run.doc)
        /\ handle = "open"
        /\ args = run.args
        /\ matplotlib = run.matplotlib
        /\ pc = "parse_plot_configs"
        /\ err = "none"
        /\ cursor = 0
        /\ position = 0
        /\ title = <<>>
        /\ layers = <<>>
        /\ k = 1
        /\ stdout = <<>>
        /\ figure = <<>>
        /\ csv_file = <<>>
        /\ image_file = <<>>
        /\ shown = FALSE

-----------------------------------------------------------------------------
(* VmdAgrPlot.load                                                         *)

\* parse_plot_configs: one pass of the loop over a line that starts with '@'
parse_plot_configs_line ==
    /\ pc = "parse_plot_configs" /\ err = "none"
    /\ LET r == readline(file, cursor)
       IN  /\ r.ok /\ r.line # <<>> /\ startswith(r.line, <<"@">>)
           /\ cursor' = r.next
           /\ position' = position + Len(r.line)
           /\ LET res == parse_config_line(title, layers, r.line)
              IN  /\ title' = res.title
                  /\ layers' = res.layers
                  /\ stdout' = stdout \o res.printed
                  /\ err' = res.err
    /\ UNCHANGED <<input, file, handle, args, matplotlib, pc, k, figure, csv_file,
                   image_file, shown>>

\* parse_plot_configs: the loop ends (a line that does not start with '@', or
\* the end of the file) and the stream is repositioned
parse_plot_configs_end ==
    /\ pc = "parse_plot_configs" /\ err = "none"
    /\ LET r == readline(file, cursor)
       IN  /\ r.ok
           /\ r.line = <<>> \/ ~startswith(r.line, <<"@">>)
    /\ cursor' = seek(position)
    /\ pc' = "parse_coordinates"
    /\ UNCHANGED <<input, file, handle, args, matplotlib, err, position, title, layers,
                   k, stdout, figure, csv_file, image_file, shown>>

\* parse_coordinates: one pass of the inner loop, for the k-th chosen layer;
\* the block's terminator or the end of the file passes to the next layer
parse_coordinates_line ==
    /\ pc = "parse_coordinates" /\ err = "none"
    /\ k <= Len(chosen_layers)
    /\ LET r == readline(file, cursor)
           at == chosen_indices(layers, args.restrict_to)[k]
       IN  IF ~r.ok
           THEN /\ err' = "UnicodeDecodeError"
                /\ UNCHANGED <<cursor, layers, stdout, k>>
           ELSE IF r.line = <<>>
           THEN /\ k' = k + 1
                /\ UNCHANGED <<cursor, layers, stdout, err>>
           ELSE LET res == parse_coordinates_line_result(layers[at].data, r.line)
                IN  /\ cursor' = r.next
                    /\ layers' = [layers EXCEPT ![at].data = res.data]
                    /\ stdout' = stdout \o res.printed
                    /\ err' = res.err
                    /\ k' = IF res.done THEN k + 1 ELSE k
    /\ UNCHANGED <<input, file, handle, args, matplotlib, pc, position, title, figure,
                   csv_file, image_file, shown>>

\* parse_coordinates: the loop over chosen_layers is over; load and __init__
\* return to main
parse_coordinates_end ==
    /\ pc = "parse_coordinates" /\ err = "none"
    /\ k > Len(chosen_layers)
    /\ pc' = "main_title"
    /\ UNCHANGED <<input, file, handle, args, matplotlib, err, cursor, position, title,
                   layers, k, stdout, figure, csv_file, image_file, shown>>

-----------------------------------------------------------------------------
(* main(), after VmdAgrPlot(args.input_file, restrict_to=args.restrict_to) *)

\* override title if given
main_title ==
    /\ pc = "main_title" /\ err = "none"
    /\ title' = IF args.title # <<>> THEN args.title ELSE title
    /\ pc' = "main_plot"
    /\ UNCHANGED <<input, file, handle, args, matplotlib, err, cursor, position, layers,
                   k, stdout, figure, csv_file, image_file, shown>>

\* if not args.do_not_plot or args.export: plot = agr_plot.plot(...);
\* if not plot: print and return
main_plot ==
    /\ pc = "main_plot" /\ err = "none"
    /\ IF ~args.do_not_plot \/ args.export # "None"
       THEN LET res == plot(chosen_layers, title, args.scale, <<args.axis_x, args.axis_y>>,
                            args.legend_position, args.labels, matplotlib)
            IN  /\ figure' = res.figure
                /\ stdout' = stdout \o res.printed \o
                      (IF res.ok THEN <<>> ELSE <<[msg |-> "Plot generation failed", arg |-> <<>>]>>)
                /\ pc' = IF res.ok THEN "main_export" ELSE "done"
       ELSE /\ pc' = "main_export"
            /\ UNCHANGED <<figure, stdout>>
    /\ UNCHANGED <<input, file, handle, args, matplotlib, err, cursor, position, title,
                   layers, k, csv_file, image_file, shown>>

\* if args.export: to_csv or savefig, then the count of exported layers
main_export ==
    /\ pc = "main_export" /\ err = "none"
    /\ IF args.export # "None"
       THEN /\ IF args.export = "csv"
               THEN /\ csv_file' = <<to_csv(chosen_layers)>>
                    /\ UNCHANGED image_file
               ELSE /\ image_file' = <<[format |-> args.export, figure |-> figure[1]]>>
                    /\ UNCHANGED csv_file
            /\ stdout' = Append(stdout, [msg |-> "Exported layer(s)", arg |-> Len(chosen_layers)])
       ELSE UNCHANGED <<csv_file, image_file, stdout>>
    /\ pc' = "main_show"
    /\ UNCHANGED <<input, file, handle, args, matplotlib, err, cursor, position, title,
                   layers, k, figure, shown>>

\* if not args.do_not_plot: plot.show()
main_show ==
    /\ pc = "main_show" /\ err = "none"
    /\ shown' = ~args.do_not_plot
    /\ pc' = "done"
    /\ UNCHANGED <<input, file, handle, args, matplotlib, err, cursor, position, title,
                   layers, k, stdout, figure, csv_file, image_file>>

Next ==
    \/ parse_plot_configs_line
    \/ parse_plot_configs_end
    \/ parse_coordinates_line
    \/ parse_coordinates_end
    \/ main_title
    \/ main_plot
    \/ main_export
    \/ main_show

Spec == Init /\ [][Next]_vars

-----------------------------------------------------------------------------
(* What the input document says, read off the document itself.             *)

Names(ls) == [i \in 1..Len(ls) |-> ls[i].name]

RECURSIVE LegendNames(_)
LegendNames(header) ==
    IF header = <<>> THEN <<>>
    ELSE IF Head(header).kind = "legend"
         THEN <<Head(header).arg>> \o LegendNames(Tail(header))
         ELSE LegendNames(Tail(header))

RECURSIVE Restricted(_, _)
Restricted(names, wanted) ==
    IF names = <<>> THEN <<>>
    ELSE IF wanted = {} \/ Head(names) \in wanted
         THEN <<Head(names)>> \o Restricted(Tail(names), wanted)
         ELSE Restricted(Tail(names), wanted)

\* the declared names selected by --restrict_to, in declaration order
SelectedNames ==
    Restricted(LegendNames(input.header),
               { args.restrict_to[i] : i \in 1..Len(args.restrict_to) })

\* the points of the n-th data block of the document: the "<x> <y>" lines
\* between the (n-1)-th and the n-th "&"
RECURSIVE BlockFrom(_)
BlockFrom(data) ==
    IF data = <<>> \/ Head(data).kind = "end" THEN <<>>
    ELSE <<<<Head(data).x, Head(data).y>>>> \o BlockFrom(Tail(data))

RECURSIVE AfterBlock(_)
AfterBlock(data) ==
    IF data = <<>> THEN <<>>
    ELSE IF Head(data).kind = "end" THEN Tail(data)
    ELSE AfterBlock(Tail(data))

RECURSIVE Block(_, _)
Block(data, n) == IF n = 1 THEN BlockFrom(data) ELSE Block(AfterBlock(data), n - 1)

\* the points a block leaves: one per x, in the order the x first occur, each
\* with the y of the last line that has that x
LastWins(block) ==
    LET first == { i \in 1..Len(block) : \A j \in 1..(i - 1) : block[j][1] # block[i][1] }
        last(x) == CHOOSE i \in 1..Len(block) :
                     /\ block[i][1] = x
                     /\ \A j \in (i + 1)..Len(block) : block[j][1] # x
        nth(n) == CHOOSE i \in first : Cardinality({ j \in first : j < i }) = n - 1
    IN  [n \in 1..Cardinality(first) |-> <<block[nth(n)][1], block[last(block[nth(n)][1])][2]>>]

AllLines == input.header \o input.data

RECURSIVE BytesOf(_)
BytesOf(ls) ==
    IF ls = <<>> THEN 0
    ELSE Len(encode(Head(ls).text)) + Len(eol_bytes(input.eol)) + BytesOf(Tail(ls))

\* the byte offset at which the n-th line of the file starts
LineStart(n) == BytesOf(SubSeq(AllLines, 1, n - 1))

\* the index of the line that starts at byte offset c, 0 if none does
LineAt(c) ==
    IF \E n \in 1..Len(AllLines) : LineStart(n) = c
    THEN CHOOSE n \in 1..Len(AllLines) : LineStart(n) = c
    ELSE 0

Printed(msg) == \E i \in 1..Len(stdout) : stdout[i].msg = msg

Loaded == pc \in {"main_title", "main_plot", "main_export", "main_show", "done"}

-----------------------------------------------------------------------------
(* The claims.                                                             *)

WellFormedData == \A i \in 1..Len(input.data) : input.data[i].kind # "short"

\* C1: after load, every selected series holds exactly the points of the data
\* block at its own declaration position (with A, B, C declared and
\* restrict_to = [B], B holds the points of the second block).
C1_SelectedSeriesHoldOwnBlock ==
    (Loaded /\ err = "none" /\ WellFormedData) =>
        \A j \in 1..Len(chosen_layers) :
            LET i == chosen_indices(layers, args.restrict_to)[j]
            IN  layers[i].data = LastWins(Block(input.data, i))

\* C2: without matplotlib, --export csv still writes the csv file (with or
\* without --do_not_plot), and --export svg/png/jpg reports a failure and
\* writes no file.
C2_CsvExportWithoutMatplotlib ==
    (pc = "done" /\ err = "none" /\ ~matplotlib) =>
        /\ args.export = "csv" => csv_file # <<>>
        /\ args.export \in {"svg", "png", "jpg"} =>
              image_file = <<>> /\ Printed("Plot generation failed")

\* C3: once the header is parsed without a fatal error, self.layers carries
\* exactly the names of the header's legend directives, in encounter order.
C3_LayersAreLegendsInOrder ==
    pc # "parse_plot_configs" => Names(layers) = LegendNames(input.header)

C3_Witness ==
    /\ pc = "done"
    /\ Len(input.header) = 3
    /\ Names(layers) = <<NameB, NameA>>

\* C4: after parse_plot_configs has repositioned the stream, it stands at the
\* first byte of the first line that is no directive, whatever the header
\* holds, and the first line parse_coordinates reads is that line, whole.
C4_StreamAtFirstDataLine ==
    (pc = "parse_coordinates" /\ err = "none" /\ k = 1
        /\ \A i \in 1..Len(layers) : layers[i].data = <<>>) =>
        /\ cursor = BytesOf(input.header)
        /\ readline(file, cursor).ok
        /\ readline(file, cursor).line =
              (IF input.data = <<>> THEN <<>> ELSE Append(input.data[1].text, "LF"))

\* C5: a line whose x the series already holds is no failure: one warning is
\* printed for it, the point of that x keeps its place and takes the line's
\* y, no point is added, and parsing goes on with the next line; so a series
\* holds one point per x, with the y of the last occurrence in its block.
C5_DuplicateStep ==
    LET n == LineAt(cursor)
        at == chosen_indices(layers, args.restrict_to)[k]
        line == AllLines[n]
    IN  (/\ pc = "parse_coordinates" /\ err = "none" /\ k <= Len(chosen_layers)
         /\ n > Len(input.header)
         /\ line.kind = "point"
         /\ has_key(layers[at].data, line.x))
        => /\ err' = "none"
           /\ pc' = pc /\ k' = k
           /\ cursor' = LineStart(n + 1)
           /\ stdout' = Append(stdout, [msg |-> "Data inconsistency: occurs twice as x",
                                        arg |-> line.x])
           /\ Len(layers'[at].data) = Len(layers[at].data)
           /\ \A i \in 1..Len(layers[at].data) :
                 layers'[at].data[i] =
                    IF layers[at].data[i][1] = line.x THEN <<line.x, line.y>>
                    ELSE layers[at].data[i]
           /\ \A i \in 1..Len(layers) : i # at => layers'[i] = layers[i]

C5_OnePointPerX ==
    /\ \A i \in 1..Len(layers) :
          \A a, b \in 1..Len(layers[i].data) :
              layers[i].data[a][1] = layers[i].data[b][1] => a = b
    /\ (Loaded /\ err = "none") =>
          \A j \in 1..Len(chosen_layers) : chosen_layers[j].data = LastWins(Block(input.data, j))

\* C5: every step that reads a repeated x behaves as C5_DuplicateStep says,
\* and every state is as C5_OnePointPerX says.
C5_DuplicateXOverwrites == [][C5_DuplicateStep]_vars /\ []C5_OnePointPerX

C5_Witness ==
    /\ pc = "done"
    /\ input.data = <<PointLine(0, 1), PointLine(0, 2), EndLine>>
    /\ layers[1].data = <<<<0, 2>>>>
    /\ Printed("Data inconsistency: occurs twice as x")

PlotCalled == ~args.do_not_plot \/ args.export # "None"

LabelsMismatch == args.labels # <<>> /\ Len(args.labels) # Len(SelectedNames)

\* C6: when labels are given and their count differs from the number of
\* selected series, no figure is built, saved or shown; where main calls
\* plot(), it returns False without raising, main prints the diagnostic and
\* ends the run there.
C6_LabelMismatchIsHandled ==
    LabelsMismatch =>
        /\ figure = <<>> /\ image_file = <<>> /\ ~shown
        /\ (PlotCalled /\ pc \in {"main_export", "main_show", "done"}) =>
              /\ pc = "done" /\ err = "none" /\ csv_file = <<>>
              /\ Len(stdout) >= 2
              /\ stdout[Len(stdout)].msg = "Plot generation failed"
              /\ stdout[Len(stdout) - 1].msg =
                    (IF matplotlib THEN "There should be exactly as many labels"
                     ELSE "Matplotlib not found")

C6_Witness ==
    /\ pc = "done" /\ LabelsMismatch /\ matplotlib /\ ~args.do_not_plot
    /\ Len(args.labels) = 2 /\ Len(chosen_layers) = 3
    /\ Printed("There should be exactly as many labels")
    /\ Printed("Plot generation failed")

\* the (x, y) read back from a csv table for a series: the rows whose
\* <name>.x and <name>.y cells are populated, as floats, in row order
ReadBack(table, name) ==
    LET cx == CHOOSE c \in 1..Len(table.fieldnames) : table.fieldnames[c] = column(name, "x")
        cy == CHOOSE c \in 1..Len(table.fieldnames) : table.fieldnames[c] = column(name, "y")
        rows == { r \in 1..Len(table.rows) :
                    table.rows[r][cx] # <<>> /\ table.rows[r][cy] # <<>> }
        nth(n) == CHOOSE r \in rows : Cardinality({ q \in rows : q < r }) = n - 1
    IN  [n \in 1..Cardinality(rows) |->
            <<float(table.rows[nth(n)][cx]).value, float(table.rows[nth(n)][cy]).value>>]

\* C7: the table to_csv writes, read back series by series, gives each
\* selected series' (x, y) pairs in insertion order.
C7_CsvRoundTrip ==
    csv_file # <<>> =>
        \A j \in 1..Len(chosen_layers) :
            ReadBack(csv_file[1], chosen_layers[j].name) = chosen_layers[j].data

\* C8: on every exit of the run (normal end, reported plot failure, parse
\* failure) the input file handle is closed.
C8_InputFileClosedOnExit ==
    (pc = "done" \/ err # "none") => handle = "closed"

\* C9: a directive that is no title, no legend and no type directive is not
\* fatal: it is reported as unrecognized, title and layers stay as they are,
\* and the scan goes on with the next line.
C9_OtherDirectiveStep ==
    LET n == LineAt(cursor)
    IN  (/\ pc = "parse_plot_configs" /\ err = "none"
         /\ n \in 1..Len(input.header)
         /\ input.header[n].kind = "other")
        => /\ err' = "none"
           /\ pc' = "parse_plot_configs"
           /\ title' = title /\ layers' = layers
           /\ Len(stdout') = Len(stdout) + 1
           /\ stdout'[Len(stdout')].msg = "Unrecognized command"
           /\ cursor' = LineStart(n + 1)

\* C9: every step that reads such a directive behaves as
\* C9_OtherDirectiveStep says.
C9_OtherDirectivesAreNotFatal == [][C9_OtherDirectiveStep]_vars

\* C10: from the end of the header phase on, chosen_layers is the declared
\* series whose name is in restrict_to (all of them without a restriction),
\* in declaration order, and the data phase, to_csv, plot and the printed
\* layer count all go by it.
C10_OneSelection ==
    pc # "parse_plot_configs" =>
        /\ Names(chosen_layers) = SelectedNames
        /\ k <= Len(SelectedNames) + 1
        /\ (Loaded /\ err = "none") => k = Len(SelectedNames) + 1
        /\ csv_file # <<>> =>
              csv_file[1].fieldnames =
                 [c \in 1..(2 * Len(SelectedNames)) |->
                    SelectedNames[(c + 1) \div 2] \o <<".", IF c % 2 = 1 THEN "x" ELSE "y">>]
        /\ figure # <<>> => Len(figure[1].lines) = Len(SelectedNames)
        /\ (figure # <<>> /\ args.labels = <<>>) =>
              [i \in 1..Len(figure[1].lines) |-> figure[1].lines[i].label] = SelectedNames
        /\ \A i \in 1..Len(stdout) :
              stdout[i].msg = "Exported layer(s)" => stdout[i].arg = Len(SelectedNames)

C10_Witness ==
    /\ pc = "done"
    /\ args.restrict_to = <<NameA, NameC>>
    /\ LegendNames(input.header) = <<NameA, NameB, NameC>>
    /\ Names(chosen_layers) = <<NameA, NameC>>
    /\ csv_file # <<>>

====
